---- MODULE Spec2Model ----
(***************************************************************************)
(* The Yahoo provider of goth (providers/yahoo/yahoo.go): New, BeginAuth,  *)
(* FetchUser, UnmarshalSession, RefreshToken and Debug, called by several  *)
(* callers on one Provider.                                                *)
(*                                                                         *)
(* A Go string is a sequence of atoms.  An atom is an ordinary run of      *)
(* characters ("jdoe") or one of the characters the encoders treat         *)
(* specially: the quote, the backslash and "<" for JSON, and "&", "=",     *)
(* "%", "+", "?" and the space for URL query strings.                      *)
(***************************************************************************)
EXTENDS Integers, Sequences, FiniteSets, TLC

(***************************************************************************)
(* Bounds of the model.                                                    *)
(***************************************************************************)
NumCallers == 2
MaxMembers == 2
MaxStrLen == 2

Procs == 1..NumCallers

\* yahoo.go:16-20
authURL == "https://api.login.yahoo.com/oauth2/request_auth"
tokenURL == "https://api.login.yahoo.com/oauth2/get_token"
endpointProfile == "https://social.yahooapis.com/v1/user/GUID/profile?format=json"

\* All sequences over S of length at most n.
RECURSIVE SeqsUpTo(_, _)
SeqsUpTo(S, n) ==
    IF n = 0 THEN {<<>>}
    ELSE LET shorter == SeqsUpTo(S, n - 1)
         IN  shorter \cup {Append(s, x) : s \in shorter, x \in S}

(***************************************************************************)
(* JSON values and JSON text.  A value is null, a number, a string or an   *)
(* object (a sequence of members, in document order, duplicates allowed).  *)
(* JSON text is a sequence of tokens; a string token carries the escaped   *)
(* characters between its quotes.                                          *)
(***************************************************************************)
JNull == [t |-> "null", s |-> <<>>, m |-> <<>>]
JNum == [t |-> "num", s |-> <<>>, m |-> <<>>]
JStr(x) == [t |-> "str", s |-> x, m |-> <<>>]
JObj(ms) == [t |-> "obj", s |-> <<>>, m |-> ms]
Member(key, val) == [k |-> <<key>>, v |-> val]

Tok(kind) == [k |-> kind, s |-> <<>>]
StrTok(esc) == [k |-> "str", s |-> esc]

\* encoding/json's string encoder: the quote and the backslash get a
\* backslash, "<" is written as the escape u003c (HTML escaping is on by default).
RECURSIVE Quote(_)
Quote(s) ==
    IF s = <<>> THEN <<>>
    ELSE LET c == Head(s)
         IN  (CASE c = "\"" -> <<"\\", "\"">>
                [] c = "\\" -> <<"\\", "\\">>
                [] c = "<"  -> <<"\\", "u003c">>
                [] OTHER    -> <<c>>) \o Quote(Tail(s))

\* A mis-decoder that drops the character after a backslash only when it is
\* a quote or a backslash and does not translate the u003c escape.
RECURSIVE Unquote_noUnicode(_)
Unquote_noUnicode(esc) ==
    IF esc = <<>> THEN [ok |-> TRUE, s |-> <<>>]
    ELSE IF Head(esc) = "\"" THEN [ok |-> FALSE, s |-> <<>>]
    ELSE IF Head(esc) = "\\"
         THEN IF Len(esc) < 2 THEN [ok |-> FALSE, s |-> <<>>]
              ELSE LET rest == Unquote_noUnicode(Tail(Tail(esc)))
                   IN  [ok |-> rest.ok, s |-> <<esc[2]>> \o rest.s]
    ELSE LET rest == Unquote_noUnicode(Tail(esc))
         IN  [ok |-> rest.ok, s |-> <<Head(esc)>> \o rest.s]

\* encoding/json's unquote: the escapes are undone; a bare quote, a lone
\* backslash or an unknown escape is a syntax error.
RECURSIVE Unquote(_)
Unquote(esc) ==
    IF esc = <<>> THEN [ok |-> TRUE, s |-> <<>>]
    ELSE IF Head(esc) = "\"" THEN [ok |-> FALSE, s |-> <<>>]
    ELSE IF Head(esc) = "\\"
         THEN IF Len(esc) < 2 \/ esc[2] \notin {"\"", "\\", "u003c"}
              THEN [ok |-> FALSE, s |-> <<>>]
              ELSE LET rest == Unquote(Tail(Tail(esc)))
                   IN  [ok |-> rest.ok,
                        s |-> <<IF esc[2] = "u003c" THEN "<" ELSE esc[2]>> \o rest.s]
    ELSE LET rest == Unquote(Tail(esc))
         IN  [ok |-> rest.ok, s |-> <<Head(esc)>> \o rest.s]

\* The text of a value, as json.Marshal (and the profile endpoint) writes it.
RECURSIVE Render(_), RenderMembers(_)
Render(v) ==
    CASE v.t = "null" -> <<Tok("null")>>
      [] v.t = "num"  -> <<Tok("num")>>
      [] v.t = "str"  -> <<StrTok(Quote(v.s))>>
      [] OTHER        -> <<Tok("lbrace")>> \o RenderMembers(v.m) \o <<Tok("rbrace")>>
RenderMembers(ms) ==
    IF ms = <<>> THEN <<>>
    ELSE <<StrTok(Quote(ms[1].k)), Tok("colon")>> \o Render(ms[1].v)
         \o (IF Len(ms) > 1 THEN <<Tok("comma")>> ELSE <<>>)
         \o RenderMembers(Tail(ms))

\* The decoder's scanner: reads ONE value off the front of the text and
\* leaves the rest unread.  [ok, v, rest].
ParseFail == [ok |-> FALSE, v |-> JNull, rest |-> <<>>]
RECURSIVE ParseValue(_), ParseMembers(_, _)
ParseValue(ts) ==
    IF ts = <<>> THEN ParseFail
    ELSE LET h == Head(ts)
         IN  CASE h.k = "null" -> [ok |-> TRUE, v |-> JNull, rest |-> Tail(ts)]
               [] h.k = "num"  -> [ok |-> TRUE, v |-> JNum, rest |-> Tail(ts)]
               [] h.k = "str"  ->
                    LET u == Unquote(h.s)
                    IN  IF u.ok THEN [ok |-> TRUE, v |-> JStr(u.s), rest |-> Tail(ts)]
                        ELSE ParseFail
               [] h.k = "lbrace" ->
                    IF Len(ts) >= 2 /\ ts[2].k = "rbrace"
                    THEN [ok |-> TRUE, v |-> JObj(<<>>), rest |-> SubSeq(ts, 3, Len(ts))]
                    ELSE ParseMembers(Tail(ts), <<>>)
               [] OTHER -> ParseFail
ParseMembers(ts, acc) ==
    IF Len(ts) < 3 \/ ts[1].k # "str" \/ ts[2].k # "colon" THEN ParseFail
    ELSE LET key == Unquote(ts[1].s)
             val == ParseValue(SubSeq(ts, 3, Len(ts)))
         IN  IF ~key.ok \/ ~val.ok \/ val.rest = <<>> THEN ParseFail
             ELSE LET acc2 == Append(acc, [k |-> key.s, v |-> val.v])
                      sep == Head(val.rest)
                  IN  IF sep.k = "rbrace"
                      THEN [ok |-> TRUE, v |-> JObj(acc2), rest |-> Tail(val.rest)]
                      ELSE IF sep.k = "comma"
                           THEN ParseMembers(Tail(val.rest), acc2)
                           ELSE ParseFail

\* The letters of a key folded to lower case (the keys the model uses).
Lower(a) ==
    CASE a = "NickName" -> "nickname"
      [] a = "imageURL" -> "imageurl"
      [] a = "AuthURL" -> "authurl"
      [] a = "AccessToken" -> "accesstoken"
      [] a = "accessToken" -> "accesstoken"
      [] a = "RefreshToken" -> "refreshtoken"
      [] a = "ExpiresAt" -> "expiresat"
      [] OTHER -> a

\* encoding/json matches an object key to a struct field by its name, exactly
\* or ignoring case.
KeyMatches(key, name) == Len(key) = 1 /\ Lower(key[1]) = Lower(name)

\* A JSON value stored in a string field: a string is stored, null leaves the
\* field alone, anything else leaves it alone and is an UnmarshalTypeError.
StoreString(cur, val) ==
    CASE val.t = "str"  -> [val |-> val.s, err |-> FALSE]
      [] val.t = "null" -> [val |-> cur, err |-> FALSE]
      [] OTHER          -> [val |-> cur, err |-> TRUE]

(***************************************************************************)
(* time.Time values and their RFC 3339 text (time.Time's MarshalJSON and   *)
(* UnmarshalJSON).  T0 is the zero time.                                   *)
(***************************************************************************)
Times == {"T0", "T1"}
ZeroTime == "T0"
FormatTime(t) == IF t = "T0" THEN "0001-01-01T00:00:00Z" ELSE "2026-11-03T10:00:00Z"
ParseTime(s) ==
    IF s = <<"0001-01-01T00:00:00Z">> THEN [ok |-> TRUE, t |-> "T0"]
    ELSE IF s = <<"2026-11-03T10:00:00Z">> THEN [ok |-> TRUE, t |-> "T1"]
    ELSE [ok |-> FALSE, t |-> ZeroTime]

(***************************************************************************)
(* Session: the authorization URL, the two tokens and the expiry.          *)
(***************************************************************************)
ZeroSession ==
    [AuthURL |-> <<>>, AccessToken |-> <<>>, RefreshToken |-> <<>>, ExpiresAt |-> ZeroTime]

\* Session.Marshal: the session as a JSON object of its four fields.
SessionValue(s) ==
    JObj(<<Member("AuthURL", JStr(s.AuthURL)),
           Member("AccessToken", JStr(s.AccessToken)),
           Member("RefreshToken", JStr(s.RefreshToken)),
           Member("ExpiresAt", JStr(<<FormatTime(s.ExpiresAt)>>))>>)
Marshal(s) == Render(SessionValue(s))

\* One member of the object stored in the Session being decoded.  d is
\* [s, err]: a type error is saved and decoding goes on; an error of
\* time.Time's UnmarshalJSON is returned at once (err = "time").
StoreSessionString(d, field, val) ==
    LET r == StoreString(d.s[field], val)
    IN  [s |-> [d.s EXCEPT ![field] = r.val],
         err |-> IF r.err /\ d.err = "nil" THEN "type" ELSE d.err]
StoreSessionTime(d, val) ==
    IF val.t = "null" THEN d
    ELSE IF val.t = "str" /\ ParseTime(val.s).ok
         THEN [d EXCEPT !.s.ExpiresAt = ParseTime(val.s).t]
         ELSE [d EXCEPT !.err = "time"]
SessionField(d, mb) ==
    IF KeyMatches(mb.k, "AuthURL") THEN StoreSessionString(d, "AuthURL", mb.v)
    ELSE IF KeyMatches(mb.k, "AccessToken") THEN StoreSessionString(d, "AccessToken", mb.v)
    ELSE IF KeyMatches(mb.k, "RefreshToken") THEN StoreSessionString(d, "RefreshToken", mb.v)
    ELSE IF KeyMatches(mb.k, "ExpiresAt") THEN StoreSessionTime(d, mb.v)
    ELSE d
RECURSIVE SessionMembers(_, _)
SessionMembers(ms, d) ==
    IF ms = <<>> \/ d.err = "time" THEN d
    ELSE SessionMembers(Tail(ms), SessionField(d, Head(ms)))

\* json.NewDecoder(strings.NewReader(data)).Decode(s) with s = &Session{}
DecodeSession(data) ==
    LET p == ParseValue(data)
        d0 == [s |-> ZeroSession, err |-> "nil"]
    IN  IF ~p.ok THEN [d0 EXCEPT !.err = "syntax"]
        ELSE IF p.v.t = "obj" THEN SessionMembers(p.v.m, d0)
        ELSE IF p.v.t = "null" THEN d0
        ELSE [d0 EXCEPT !.err = "type"]

\* UnmarshalSession returns the session it decoded into together with the
\* decoder's error.
UnmarshalSession(data) ==
    LET d == DecodeSession(data) IN [session |-> d.s, err |-> d.err]

(***************************************************************************)
(* goth.User (the fields this provider touches) and userFromReader.        *)
(***************************************************************************)
Str(a) == <<a>>
ZeroUser ==
    [Provider |-> <<>>, Email |-> <<>>, Name |-> <<>>, NickName |-> <<>>,
     UserID |-> <<>>, Location |-> <<>>, AvatarURL |-> <<>>,
     AccessToken |-> <<>>, RefreshToken |-> <<>>, ExpiresAt |-> ZeroTime]

Name == Str("yahoo")

\* The anonymous struct u of userFromReader, flattened, with the decoder's
\* saved error.
ZeroProfile ==
    [NickName |-> <<>>, Location |-> <<>>, ID |-> <<>>, ImageURL |-> <<>>, err |-> FALSE]
StoreProfileString(u, field, val) ==
    LET r == StoreString(u[field], val)
    IN  [[u EXCEPT ![field] = r.val] EXCEPT !.err = u.err \/ r.err]
RECURSIVE ImageMembers(_, _)
ImageMembers(ms, u) ==
    IF ms = <<>> THEN u
    ELSE ImageMembers(Tail(ms),
            IF KeyMatches(Head(ms).k, "imageURL")
            THEN StoreProfileString(u, "ImageURL", Head(ms).v)
            ELSE u)
\* A JSON value stored in a struct: an object member by member, null not at
\* all, anything else is an UnmarshalTypeError.
ImageInto(u, val) ==
    CASE val.t = "obj"  -> ImageMembers(val.m, u)
      [] val.t = "null" -> u
      [] OTHER          -> [u EXCEPT !.err = TRUE]
ProfileField(u, mb) ==
    IF KeyMatches(mb.k, "nickname") THEN StoreProfileString(u, "NickName", mb.v)
    ELSE IF KeyMatches(mb.k, "location") THEN StoreProfileString(u, "Location", mb.v)
    ELSE IF KeyMatches(mb.k, "guid") THEN StoreProfileString(u, "ID", mb.v)
    ELSE IF KeyMatches(mb.k, "image") THEN ImageInto(u, mb.v)
    ELSE u
RECURSIVE ProfileMembers(_, _)
ProfileMembers(ms, u) ==
    IF ms = <<>> THEN u ELSE ProfileMembers(Tail(ms), ProfileField(u, Head(ms)))
ProfileInto(u, val) ==
    CASE val.t = "obj"  -> ProfileMembers(val.m, u)
      [] val.t = "null" -> u
      [] OTHER          -> [u EXCEPT !.err = TRUE]
RECURSIVE TopMembers(_, _)
TopMembers(ms, u) ==
    IF ms = <<>> THEN u
    ELSE TopMembers(Tail(ms),
            IF KeyMatches(Head(ms).k, "profile") THEN ProfileInto(u, Head(ms).v) ELSE u)

\* json.NewDecoder(r).Decode(&u): [u, err]
DecodeProfile(body) ==
    LET p == ParseValue(body)
    IN  IF ~p.ok THEN [u |-> ZeroProfile, err |-> "syntax"]
        ELSE LET u == CASE p.v.t = "obj"  -> TopMembers(p.v.m, ZeroProfile)
                        [] p.v.t = "null" -> ZeroProfile
                        [] OTHER          -> [ZeroProfile EXCEPT !.err = TRUE]
             IN  [u |-> u, err |-> IF u.err THEN "type" ELSE "nil"]

\* A copy that takes the guid for the display name.
CopyProfile_nameFromID(user, u) ==
    [user EXCEPT !.Email = <<>>, !.Name = u.ID, !.NickName = u.NickName,
                 !.UserID = u.ID, !.Location = u.Location, !.AvatarURL = u.ImageURL]

\* The assignments of userFromReader after a successful decode.
CopyProfile(user, u) ==
    [user EXCEPT !.Email = <<>>, !.Name = u.NickName, !.NickName = u.NickName,
                 !.UserID = u.ID, !.Location = u.Location, !.AvatarURL = u.ImageURL]

\* A userFromReader that copies what was decoded before looking at the error.
userFromReader_copyFirst(body, user) ==
    LET d == DecodeProfile(body) IN [user |-> CopyProfile(user, d.u), err |-> d.err]

\* userFromReader: [user, err]
userFromReader(body, user) ==
    LET d == DecodeProfile(body)
    IN  IF d.err # "nil" THEN [user |-> user, err |-> d.err]
        ELSE [user |-> CopyProfile(user, d.u), err |-> "nil"]

(***************************************************************************)
(* The Provider and its oauth2.Config.                                     *)
(***************************************************************************)
\* newConfig: the scopes are appended one by one to an empty list.
newConfig(provider, scopes) ==
    [ClientID |-> provider.ClientKey,
     ClientSecret |-> provider.Secret,
     RedirectURL |-> provider.CallbackURL,
     Endpoint |-> [AuthURL |-> authURL, TokenURL |-> tokenURL],
     Scopes |-> <<>> \o scopes]

\* A newConfig that takes the secret for the client id.
New_swapped(clientKey, secret, callbackURL, scopes) ==
    LET p == [ClientKey |-> secret, Secret |-> clientKey, CallbackURL |-> callbackURL]
    IN  [ClientKey |-> clientKey, Secret |-> secret, CallbackURL |-> callbackURL,
         config |-> newConfig(p, scopes)]

New(clientKey, secret, callbackURL, scopes) ==
    LET p == [ClientKey |-> clientKey, Secret |-> secret, CallbackURL |-> callbackURL]
    IN  [ClientKey |-> clientKey, Secret |-> secret, CallbackURL |-> callbackURL,
         config |-> newConfig(p, scopes)]

\* url.QueryEscape, atom by atom.
EscapeAtom(a) ==
    CASE a = " " -> "+"
      [] a = "&" -> "%26"
      [] a = "=" -> "%3D"
      [] a = "%" -> "%25"
      [] a = "+" -> "%2B"
      [] a = "?" -> "%3F"
      [] OTHER   -> a
QueryEscape(s) == [i \in 1..Len(s) |-> EscapeAtom(s[i])]

\* strings.Join(scopes, " ")
RECURSIVE JoinScopes(_)
JoinScopes(scopes) ==
    IF scopes = <<>> THEN <<>>
    ELSE IF Len(scopes) = 1 THEN scopes[1]
    ELSE scopes[1] \o <<" ">> \o JoinScopes(Tail(scopes))

\* url.Values.Encode of parameters already sorted by key.
RECURSIVE EncodeValues(_)
EncodeValues(ps) ==
    IF ps = <<>> THEN <<>>
    ELSE <<ps[1].k, "=">> \o QueryEscape(ps[1].v)
         \o (IF Len(ps) > 1 THEN <<"&">> ELSE <<>>) \o EncodeValues(Tail(ps))

\* oauth2.Config.AuthCodeURL(state): response_type and client_id always,
\* redirect_uri, scope and state when not empty; the keys come out sorted.
AuthCodeURL(c, state) ==
    <<c.Endpoint.AuthURL, "?">> \o
    EncodeValues(
        <<[k |-> "client_id", v |-> c.ClientID]>>
        \o (IF c.RedirectURL # <<>> THEN <<[k |-> "redirect_uri", v |-> c.RedirectURL]>> ELSE <<>>)
        \o <<[k |-> "response_type", v |-> <<"code">>]>>
        \o (IF Len(c.Scopes) > 0 THEN <<[k |-> "scope", v |-> JoinScopes(c.Scopes)]>> ELSE <<>>)
        \o (IF state # <<>> THEN <<[k |-> "state", v |-> state]>> ELSE <<>>))

\* BeginAuth: [session, err]
BeginAuth(p, state) ==
    [session |-> [ZeroSession EXCEPT !.AuthURL = AuthCodeURL(p.config, state)],
     err |-> "nil"]

\* A Debug that points the callback at a debugging endpoint.
DebugProvider_store(p, debug) ==
    [p EXCEPT !.config.RedirectURL = IF debug THEN <<"http://localhost/debug">> ELSE @]

\* Debug is a no-op: the provider after Debug(debug).
DebugProvider(p, debug) == p

(***************************************************************************)
(* oauth2 tokens and RefreshToken.                                         *)
(***************************************************************************)
NilToken ==
    [nil |-> TRUE, AccessToken |-> <<>>, RefreshToken |-> <<>>, Expiry |-> ZeroTime]

\* A token request that carries the refresh token as the access token too.
RefreshRequest_withAccess(refreshToken) ==
    [nil |-> FALSE, AccessToken |-> refreshToken, RefreshToken |-> refreshToken,
     Expiry |-> ZeroTime]

\* token := &oauth2.Token{RefreshToken: refreshToken}
RefreshRequest(refreshToken) ==
    [nil |-> FALSE, AccessToken |-> <<>>, RefreshToken |-> refreshToken,
     Expiry |-> ZeroTime]

\* A RefreshToken that hands back whatever token it got and drops the error.
RefreshResult_swallow(o) == [token |-> o.token, err |-> "nil"]

\* newToken, err := ts.Token(); if err != nil { return nil, err }; return newToken, err
RefreshResult(o) ==
    IF o.err # "nil" THEN [token |-> NilToken, err |-> o.err]
    ELSE [token |-> o.token, err |-> o.err]

(***************************************************************************)
(* FetchUser, step by step.                                                *)
(***************************************************************************)
\* user := goth.User{AccessToken, Provider, RefreshToken, ExpiresAt}
InitUser(s) ==
    [ZeroUser EXCEPT !.AccessToken = s.AccessToken, !.Provider = Name,
                     !.RefreshToken = s.RefreshToken, !.ExpiresAt = s.ExpiresAt]

NoResp == [present |-> FALSE, status |-> 0, body |-> <<>>, state |-> "none"]
NoReq == [method |-> "", url |-> "", auth |-> <<>>]

\* session.(*Session) followed by the reads of s: a nil interface or a
\* session of another provider fails the assertion, a nil *Session fails the
\* first field read.
AssertionPanics(sess) == sess.dyn # "yahoo"

\* if resp != nil { resp.Body.Close() } on the error path of Do
CloseOnError(o) ==
    IF o.hasResp
    THEN [present |-> TRUE, status |-> o.status, body |-> o.body, state |-> "closed"]
    ELSE NoResp

\* A deferred close that is skipped when decoding failed.
DeferredClose_onSuccess(r, err) ==
    IF err = "nil" THEN [r EXCEPT !.state = "closed"] ELSE r

\* defer resp.Body.Close()
DeferredClose(r, err) == [r EXCEPT !.state = "closed"]

(***************************************************************************)
(* State.                                                                  *)
(***************************************************************************)
VARIABLES
    made,       \* the arguments New was called with
    provider,   \* the Provider New returned
    pc,         \* where each caller is
    op,         \* the operation each caller is in
    arg,        \* its arguments
    user,       \* FetchUser: the local user
    req,        \* FetchUser: the request
    resp,       \* FetchUser: the response and the state of its body
    derr,       \* FetchUser: the error of userFromReader
    decoded,    \* FetchUser: userFromReader has returned
    ext,        \* what the outside world answered: the HTTP client, the token source
    tsArg,      \* RefreshToken: the token handed to the token source
    ret         \* what the call returned

vars == <<made, provider, pc, op, arg, user, req, resp, derr, decoded, ext, tsArg, ret>>
locals == <<user, req, resp, derr, decoded>>

NilSession == [dyn |-> "nil", s |-> ZeroSession]
YahooSession(s) == [dyn |-> "yahoo", s |-> s]
NoArg == [session |-> NilSession, state |-> <<>>, data |-> <<>>, refreshToken |-> <<>>,
          debug |-> FALSE]
NoHTTP == [err |-> "none", hasResp |-> FALSE, open |-> FALSE, status |-> 0,
           kind |-> "none", sent |-> JNull, body |-> <<>>]
NoTS == [token |-> NilToken, err |-> "none"]
NoExt == [http |-> NoHTTP, ts |-> NoTS]
NoRet == [kind |-> "none", session |-> ZeroSession, user |-> ZeroUser,
          token |-> NilToken, err |-> "nil"]

InitWith(Args) ==
    /\ made \in Args
    /\ provider = New(made.clientKey, made.secret, made.callbackURL, made.scopes)
    /\ pc = [c \in Procs |-> "idle"]
    /\ op = [c \in Procs |-> "none"]
    /\ arg = [c \in Procs |-> NoArg]
    /\ user = [c \in Procs |-> ZeroUser]
    /\ req = [c \in Procs |-> NoReq]
    /\ resp = [c \in Procs |-> NoResp]
    /\ derr = [c \in Procs |-> "nil"]
    /\ decoded = [c \in Procs |-> FALSE]
    /\ ext = [c \in Procs |-> NoExt]
    /\ tsArg = [c \in Procs |-> NilToken]
    /\ ret = [c \in Procs |-> NoRet]

(***************************************************************************)
(* The operations.  Each takes the set its inputs are drawn from.          *)
(***************************************************************************)
CallBeginAuth(c, States) ==
    /\ pc[c] = "idle"
    /\ \E st \in States :
         /\ arg' = [arg EXCEPT ![c] = [NoArg EXCEPT !.state = st]]
         /\ ret' = [ret EXCEPT ![c] =
                      [NoRet EXCEPT !.kind = "session",
                                    !.session = BeginAuth(provider, st).session,
                                    !.err = BeginAuth(provider, st).err]]
    /\ op' = [op EXCEPT ![c] = "BeginAuth"]
    /\ pc' = [pc EXCEPT ![c] = "done"]
    /\ UNCHANGED <<made, provider, locals, ext, tsArg>>

CallDebug(c) ==
    /\ pc[c] = "idle"
    /\ \E b \in BOOLEAN :
         /\ arg' = [arg EXCEPT ![c] = [NoArg EXCEPT !.debug = b]]
         /\ provider' = DebugProvider(provider, b)
    /\ op' = [op EXCEPT ![c] = "Debug"]
    /\ ret' = [ret EXCEPT ![c] = [NoRet EXCEPT !.kind = "void"]]
    /\ pc' = [pc EXCEPT ![c] = "done"]
    /\ UNCHANGED <<made, locals, ext, tsArg>>

\* The host serialized a session with Marshal and hands the text back.
CallUnmarshalMarshalled(c, Sessions) ==
    /\ pc[c] = "idle"
    /\ \E s \in Sessions :
         /\ arg' = [arg EXCEPT ![c] =
                      [NoArg EXCEPT !.session = YahooSession(s), !.data = Marshal(s)]]
         /\ ret' = [ret EXCEPT ![c] =
                      [NoRet EXCEPT !.kind = "session",
                                    !.session = UnmarshalSession(Marshal(s)).session,
                                    !.err = UnmarshalSession(Marshal(s)).err]]
    /\ op' = [op EXCEPT ![c] = "UnmarshalSession"]
    /\ pc' = [pc EXCEPT ![c] = "done"]
    /\ UNCHANGED <<made, provider, locals, ext, tsArg>>

\* The host hands in a text that no Marshal wrote.
CallUnmarshalText(c, Texts) ==
    /\ pc[c] = "idle"
    /\ \E data \in Texts :
         /\ arg' = [arg EXCEPT ![c] = [NoArg EXCEPT !.data = data]]
         /\ ret' = [ret EXCEPT ![c] =
                      [NoRet EXCEPT !.kind = "session",
                                    !.session = UnmarshalSession(data).session,
                                    !.err = UnmarshalSession(data).err]]
    /\ op' = [op EXCEPT ![c] = "UnmarshalSession"]
    /\ pc' = [pc EXCEPT ![c] = "done"]
    /\ UNCHANGED <<made, provider, locals, ext, tsArg>>

\* RefreshToken up to the call of ts.Token().
CallRefreshToken(c, RefreshTokens) ==
    /\ pc[c] = "idle"
    /\ \E rt \in RefreshTokens :
         /\ arg' = [arg EXCEPT ![c] = [NoArg EXCEPT !.refreshToken = rt]]
         /\ tsArg' = [tsArg EXCEPT ![c] = RefreshRequest(rt)]
    /\ op' = [op EXCEPT ![c] = "RefreshToken"]
    /\ pc' = [pc EXCEPT ![c] = "refresh_ts"]
    /\ UNCHANGED <<made, provider, locals, ext, ret>>

\* ts.Token() answers; RefreshToken returns.
RefreshTokenReturn(c, Outcomes) ==
    /\ pc[c] = "refresh_ts"
    /\ \E o \in Outcomes :
         /\ ext' = [ext EXCEPT ![c].ts = o]
         /\ ret' = [ret EXCEPT ![c] =
                      [NoRet EXCEPT !.kind = "token",
                                    !.token = RefreshResult(o).token,
                                    !.err = RefreshResult(o).err]]
    /\ pc' = [pc EXCEPT ![c] = "done"]
    /\ UNCHANGED <<made, provider, op, arg, locals, tsArg>>

\* FetchUser up to the call of http.DefaultClient.Do: the type assertion,
\* the user with the session's tokens, the request with its bearer header.
\* http.NewRequest cannot fail on the constant method and URL.
FetchUserBegin(c, Sessions) ==
    /\ pc[c] = "idle"
    /\ \E sess \in Sessions :
         /\ arg' = [arg EXCEPT ![c] = [NoArg EXCEPT !.session = sess]]
         /\ IF AssertionPanics(sess)
            THEN /\ pc' = [pc EXCEPT ![c] = "panicked"]
                 /\ ret' = [ret EXCEPT ![c] = [NoRet EXCEPT !.kind = "panic"]]
                 /\ UNCHANGED <<user, req>>
            ELSE /\ pc' = [pc EXCEPT ![c] = "fetch_do"]
                 /\ user' = [user EXCEPT ![c] = InitUser(sess.s)]
                 /\ req' = [req EXCEPT ![c] =
                              [method |-> "GET", url |-> endpointProfile,
                               auth |-> <<"Bearer ">> \o sess.s.AccessToken]]
                 /\ UNCHANGED ret
    /\ op' = [op EXCEPT ![c] = "FetchUser"]
    /\ UNCHANGED <<made, provider, resp, derr, decoded, ext, tsArg>>

\* http.DefaultClient.Do answers; on an error the body (if any) is closed
\* and the user returned with the error.
FetchUserDo(c, Outcomes) ==
    /\ pc[c] = "fetch_do"
    /\ \E o \in Outcomes :
         /\ ext' = [ext EXCEPT ![c].http = o]
         /\ IF o.err # "nil"
            THEN /\ resp' = [resp EXCEPT ![c] = CloseOnError(o)]
                 /\ ret' = [ret EXCEPT ![c] =
                              [NoRet EXCEPT !.kind = "user", !.user = user[c], !.err = o.err]]
                 /\ pc' = [pc EXCEPT ![c] = "done"]
            ELSE /\ resp' = [resp EXCEPT ![c] =
                               [present |-> TRUE, status |-> o.status, body |-> o.body,
                                state |-> "open"]]
                 /\ pc' = [pc EXCEPT ![c] = "fetch_decode"]
                 /\ UNCHANGED ret
    /\ UNCHANGED <<made, provider, op, arg, user, req, derr, decoded, tsArg>>

\* err = userFromReader(resp.Body, &user)
FetchUserDecode(c) ==
    /\ pc[c] = "fetch_decode"
    /\ user' = [user EXCEPT ![c] = userFromReader(resp[c].body, user[c]).user]
    /\ derr' = [derr EXCEPT ![c] = userFromReader(resp[c].body, user[c]).err]
    /\ decoded' = [decoded EXCEPT ![c] = TRUE]
    /\ pc' = [pc EXCEPT ![c] = "fetch_return"]
    /\ UNCHANGED <<made, provider, op, arg, req, resp, ext, tsArg, ret>>

\* return user, err, and the deferred close of the body
FetchUserReturn(c) ==
    /\ pc[c] = "fetch_return"
    /\ ret' = [ret EXCEPT ![c] =
                 [NoRet EXCEPT !.kind = "user", !.user = user[c], !.err = derr[c]]]
    /\ resp' = [resp EXCEPT ![c] = DeferredClose(resp[c], derr[c])]
    /\ pc' = [pc EXCEPT ![c] = "done"]
    /\ UNCHANGED <<made, provider, op, arg, user, req, derr, decoded, ext, tsArg>>

\* The caller takes the result; its locals are gone.
Return(c) ==
    /\ pc[c] = "done"
    /\ pc' = [pc EXCEPT ![c] = "idle"]
    /\ op' = [op EXCEPT ![c] = "none"]
    /\ arg' = [arg EXCEPT ![c] = NoArg]
    /\ user' = [user EXCEPT ![c] = ZeroUser]
    /\ req' = [req EXCEPT ![c] = NoReq]
    /\ resp' = [resp EXCEPT ![c] = NoResp]
    /\ derr' = [derr EXCEPT ![c] = "nil"]
    /\ decoded' = [decoded EXCEPT ![c] = FALSE]
    /\ ext' = [ext EXCEPT ![c] = NoExt]
    /\ tsArg' = [tsArg EXCEPT ![c] = NilToken]
    /\ ret' = [ret EXCEPT ![c] = NoRet]
    /\ UNCHANGED <<made, provider>>

(***************************************************************************)
(* The inputs.                                                             *)
(***************************************************************************)
Args(clientKey, secret, callbackURL, scopes) ==
    [clientKey |-> clientKey, secret |-> secret, callbackURL |-> callbackURL,
     scopes |-> scopes]
DefaultArgs == Args(<<"key">>, <<"secret">>, <<"http://host/cb">>, <<>>)

\* The arguments of New: keys and callback URLs with and without characters
\* that a query string escapes, no scope, one and two.
NewArgs ==
    {Args(k, <<"secret">>, cb, sc) :
        k \in {<<"key">>, <<"k", "&", "=">>, <<>>},
        cb \in {<<"http://host/cb">>, <<"http://host/cb", "?", "a", "=", "b c", "%">>, <<>>},
        sc \in {<<>>, <<<<"sdps-r">>>>, <<<<"sdps-r">>, <<"mail", "+", "w">>>>}}

StateStrings == SeqsUpTo({"st", "&", "=", " ", "%", "+"}, MaxStrLen)

\* Sessions as the host holds them after the exchange.
FetchSessions ==
    {YahooSession([ZeroSession EXCEPT !.AccessToken = a, !.RefreshToken = r, !.ExpiresAt = e]) :
        a \in {<<>>, <<"tok">>}, r \in {<<>>, <<"ref">>}, e \in Times}
    \cup {NilSession, [dyn |-> "nilptr", s |-> ZeroSession], [dyn |-> "other", s |-> ZeroSession]}

\* The members a profile object is made of: right, of the wrong type, null,
\* spelled in another case, unknown.
ImageObj(url) == JObj(<<Member("imageURL", url)>>)
ProfilePool ==
    {Member("nickname", JStr(<<"jdoe">>)), Member("NickName", JStr(<<"JD">>)),
     Member("nickname", JNum), Member("nickname", JNull),
     Member("guid", JStr(<<"123">>)), Member("guid", JObj(<<>>)),
     Member("location", JStr(<<"US">>)),
     Member("image", ImageObj(JStr(<<"http://x/img.png">>))),
     Member("image", ImageObj(JNum)), Member("image", JStr(<<"img">>)),
     Member("email", JStr(<<"j", "<", "\"">>))}
ProfileBody(ms) == JObj(<<Member("profile", JObj(ms))>>)
ExampleBody ==
    ProfileBody(<<Member("nickname", JStr(<<"jdoe">>)), Member("location", JStr(<<"US">>)),
                  Member("guid", JStr(<<"123">>)),
                  Member("image", ImageObj(JStr(<<"http://x/img.png">>)))>>)
ErrorBody == JObj(<<Member("error", JObj(<<Member("description", JStr(<<"token expired">>))>>))>>)
OtherBodies ==
    {JNull, JNum, JStr(<<"oops">>), JObj(<<>>), ErrorBody, ExampleBody,
     JObj(<<Member("profile", JNull)>>), JObj(<<Member("profile", JStr(<<"p">>))>>),
     JObj(<<Member("profile", JObj(<<Member("nickname", JStr(<<"jdoe">>))>>)),
            Member("profile", JObj(<<Member("guid", JStr(<<"123">>))>>))>>)}
BodyValues == {ProfileBody(ms) : ms \in SeqsUpTo(ProfilePool, MaxMembers)} \cup OtherBodies

\* Texts that are not JSON: nothing, "{not json", an HTML page, a profile cut
\* off after its nickname, a string with an unknown escape.
MalformedTexts ==
    {<<>>,
     <<Tok("lbrace"), StrTok(<<"not json">>)>>,
     <<Tok("junk")>>,
     <<Tok("lbrace"), StrTok(<<"profile">>), Tok("colon"), Tok("lbrace"),
       StrTok(<<"nickname">>), Tok("colon"), StrTok(<<"jdoe">>), Tok("comma")>>,
     <<Tok("lbrace"), StrTok(<<"profile">>), Tok("colon"), StrTok(<<"\\", "q">>), Tok("rbrace")>>}

HTTPResponse(status, kind, sent, body) ==
    [err |-> "nil", hasResp |-> TRUE, open |-> TRUE, status |-> status,
     kind |-> kind, sent |-> sent, body |-> body]
\* Do's errors: no response (connection refused), or the response of a
\* failed redirect.
ConnectionRefused == [NoHTTP EXCEPT !.err = "transport"]
RedirectFailed(open) ==
    [NoHTTP EXCEPT !.err = "transport", !.hasResp = TRUE, !.open = open, !.status = 302]
FetchOutcomes ==
    {ConnectionRefused, RedirectFailed(TRUE), RedirectFailed(FALSE)}
    \cup {HTTPResponse(200, "value", v, Render(v)) : v \in BodyValues}
    \cup {HTTPResponse(200, "trailing", v, Render(v) \o <<Tok("junk")>>) :
            v \in {ExampleBody, JObj(<<>>), JNum}}
    \cup {HTTPResponse(st, "malformed", JNull, body) : st \in {200, 500}, body \in MalformedTexts}
    \cup {HTTPResponse(st, "value", v, Render(v)) :
            st \in {401, 500}, v \in {ErrorBody, ExampleBody, JStr(<<"oops">>)}}

\* Sessions the host serializes: every field empty or populated, strings with
\* the characters JSON escapes.
SessionInputs ==
    {[AuthURL |-> u, AccessToken |-> a, RefreshToken |-> r, ExpiresAt |-> e] :
        u \in {<<>>, <<authURL, "?", "state", "=", "a", "<", "b">>},
        a \in SeqsUpTo({"tok", "\"", "\\", "<"}, MaxStrLen),
        r \in {<<>>, <<"ref", "\\", "\"">>},
        e \in Times}

\* Texts no Marshal wrote: not JSON, JSON of another shape, JSON with
\* something after it, other spellings of a session.
SessionObj(ms) == Render(JObj(ms))
SessionTexts ==
    MalformedTexts
    \cup {Render(v) : v \in {JNull, JNum, JStr(<<"s">>), JObj(<<>>)}}
    \cup {SessionObj(<<Member("AuthURL", JNum), Member("AccessToken", JStr(<<"tok">>))>>),
          SessionObj(<<Member("AccessToken", JStr(<<"tok">>)), Member("AuthURL", JNum)>>),
          SessionObj(<<Member("AccessToken", JStr(<<"tok">>)), Member("ExpiresAt", JNum),
                       Member("RefreshToken", JStr(<<"ref">>))>>),
          SessionObj(<<Member("ExpiresAt", JStr(<<"yesterday">>)),
                       Member("AccessToken", JStr(<<"tok">>))>>),
          SessionObj(<<Member("accessToken", JStr(<<"tok">>)), Member("other", JNum)>>),
          SessionObj(<<Member("AccessToken", JStr(<<"tok">>)),
                       Member("AccessToken", JNull)>>),
          SessionObj(<<Member("AccessToken", JStr(<<"tok">>))>>) \o <<Tok("junk")>>,
          SessionObj(<<Member("RefreshToken", JObj(<<>>))>>)}

RefreshTokens == SeqsUpTo({"ref", "&", " ", "\""}, MaxStrLen)

\* What the token source answers: a new token (with the old refresh token or
\* a new one), or an error and no token.
NewToken(a, r, e) == [nil |-> FALSE, AccessToken |-> a, RefreshToken |-> r, Expiry |-> e]
TokenOutcomes ==
    {[token |-> NewToken(<<"new">>, r, e), err |-> "nil"] :
        r \in {<<>>, <<"ref">>, <<"ref2">>}, e \in Times}
    \cup {[token |-> NilToken, err |-> e] : e \in {"invalid_grant", "connection refused"}}

(***************************************************************************)
(* Specifications.                                                         *)
(***************************************************************************)
\* FetchUser, one caller.
InitFetch == InitWith({DefaultArgs})
NextFetch ==
    \E c \in {1} :
        \/ FetchUserBegin(c, FetchSessions)
        \/ FetchUserDo(c, FetchOutcomes)
        \/ FetchUserDecode(c)
        \/ FetchUserReturn(c)
        \/ Return(c)
SpecFetch == InitFetch /\ [][NextFetch]_vars

\* Marshal and UnmarshalSession, one caller.
InitSession == InitWith({DefaultArgs})
NextSession ==
    \E c \in {1} :
        \/ CallUnmarshalMarshalled(c, SessionInputs)
        \/ CallUnmarshalText(c, SessionTexts)
        \/ Return(c)
SpecSession == InitSession /\ [][NextSession]_vars

\* New and BeginAuth, one caller.
InitAuth == InitWith(NewArgs)
NextAuth ==
    \E c \in {1} :
        \/ CallBeginAuth(c, StateStrings)
        \/ Return(c)
SpecAuth == InitAuth /\ [][NextAuth]_vars

\* RefreshToken, one caller.
InitRefresh == InitWith({DefaultArgs})
NextRefresh ==
    \E c \in {1} :
        \/ CallRefreshToken(c, RefreshTokens)
        \/ RefreshTokenReturn(c, TokenOutcomes)
        \/ Return(c)
SpecRefresh == InitRefresh /\ [][NextRefresh]_vars

\* Every operation, by every caller, on one Provider.
SomeSessions ==
    {YahooSession([ZeroSession EXCEPT !.AccessToken = <<"tok">>, !.RefreshToken = <<"ref">>,
                                      !.ExpiresAt = "T1"]),
     YahooSession([ZeroSession EXCEPT !.AccessToken = <<"tok2">>]),
     [dyn |-> "other", s |-> ZeroSession]}
SomeOutcomes ==
    {ConnectionRefused, RedirectFailed(TRUE),
     HTTPResponse(200, "value", ExampleBody, Render(ExampleBody)),
     HTTPResponse(401, "value", ErrorBody, Render(ErrorBody)),
     HTTPResponse(200, "malformed", JNull, <<Tok("lbrace"), StrTok(<<"not json">>)>>)}
SomeStates == {<<>>, <<"st", "&">>}
SomeTexts ==
    {<<Tok("lbrace"), StrTok(<<"not json">>)>>,
     SessionObj(<<Member("AuthURL", JNum), Member("AccessToken", JStr(<<"tok">>))>>)}
SomeTokenOutcomes ==
    {[token |-> NewToken(<<"new">>, <<"ref2">>, "T1"), err |-> "nil"],
     [token |-> NilToken, err |-> "invalid_grant"]}
Init == InitWith({Args(<<"k", "&">>, <<"secret">>, <<"http://host/cb">>, <<<<"sdps-r">>>>)})
Next ==
    \E c \in Procs :
        \/ CallBeginAuth(c, SomeStates)
        \/ CallDebug(c)
        \/ CallUnmarshalMarshalled(c, {s.s : s \in {x \in SomeSessions : x.dyn = "yahoo"}})
        \/ CallUnmarshalText(c, SomeTexts)
        \/ CallRefreshToken(c, {<<"ref">>})
        \/ RefreshTokenReturn(c, SomeTokenOutcomes)
        \/ FetchUserBegin(c, SomeSessions)
        \/ FetchUserDo(c, SomeOutcomes)
        \/ FetchUserDecode(c)
        \/ FetchUserReturn(c)
        \/ Return(c)
Spec == Init /\ [][Next]_vars

(***************************************************************************)
(* Reading a JSON value the way the claims speak of it.                    *)
(***************************************************************************)
StrOrNull(v) == v.t \in {"str", "null"}
HasField(v, name) == v.t = "obj" /\ \E i \in 1..Len(v.m) : KeyMatches(v.m[i].k, name)
\* The value of the member called name (JSON null when there is none).
Field(v, name) ==
    IF HasField(v, name)
    THEN v.m[CHOOSE i \in 1..Len(v.m) : KeyMatches(v.m[i].k, name)].v
    ELSE JNull
TextOf(v) == IF v.t = "str" THEN v.s ELSE <<>>

\* No object of the value names a field twice.
RECURSIVE UniqueKeys(_)
UniqueKeys(v) ==
    v.t = "obj" =>
        /\ \A i, j \in 1..Len(v.m) :
              (i # j /\ Len(v.m[i].k) = 1) => ~KeyMatches(v.m[j].k, v.m[i].k[1])
        /\ \A i \in 1..Len(v.m) : UniqueKeys(v.m[i].v)

\* The value has the shape {profile: {nickname, location, guid, image: {imageURL}}}:
\* every field that is there is of its type (or null), others are ignored.
ImageShaped(v) ==
    \/ v.t = "null"
    \/ v.t = "obj" /\ \A i \in 1..Len(v.m) :
          KeyMatches(v.m[i].k, "imageURL") => StrOrNull(v.m[i].v)
ProfileShaped(v) ==
    \/ v.t = "null"
    \/ v.t = "obj" /\ \A i \in 1..Len(v.m) :
          /\ (\E n \in {"nickname", "location", "guid"} : KeyMatches(v.m[i].k, n))
                => StrOrNull(v.m[i].v)
          /\ KeyMatches(v.m[i].k, "image") => ImageShaped(v.m[i].v)
BodyShaped(v) ==
    \/ v.t = "null"
    \/ v.t = "obj" /\ \A i \in 1..Len(v.m) :
          KeyMatches(v.m[i].k, "profile") => ProfileShaped(v.m[i].v)

\* The reference projection of a session and a profile.
Projection(s, body) ==
    LET profile == Field(body, "profile")
    IN  [Provider |-> <<"yahoo">>, Email |-> <<>>,
         Name |-> TextOf(Field(profile, "nickname")),
         NickName |-> TextOf(Field(profile, "nickname")),
         UserID |-> TextOf(Field(profile, "guid")),
         Location |-> TextOf(Field(profile, "location")),
         AvatarURL |-> TextOf(Field(Field(profile, "image"), "imageURL")),
         AccessToken |-> s.AccessToken, RefreshToken |-> s.RefreshToken,
         ExpiresAt |-> s.ExpiresAt]

FetchDone(c) == pc[c] = "done" /\ op[c] = "FetchUser"
TokensOf(u, s) ==
    /\ u.AccessToken = s.AccessToken
    /\ u.RefreshToken = s.RefreshToken
    /\ u.ExpiresAt = s.ExpiresAt
NoProfile(u) ==
    /\ u.Name = <<>> /\ u.NickName = <<>> /\ u.UserID = <<>>
    /\ u.Location = <<>> /\ u.AvatarURL = <<>>

\* C1: whenever the profile endpoint answers with a body that decodes as
\* JSON of the profile shape, FetchUser returns a nil error and the user that
\* is the reference projection of the session and the body: provider
\* "yahoo", the session's tokens and expiry, the nickname as Name and
\* NickName, the guid as UserID, the location, the image URL as AvatarURL,
\* an empty Email, and the empty string for whatever the body lacks.  (The
\* fields of the body are read as encoding/json reads them: a key matches
\* ignoring case, null counts as absent; the projection is compared for
\* bodies that name no field twice.)
C1_FetchUserProjection ==
    \A c \in Procs :
        (/\ FetchDone(c)
         /\ ext[c].http.err = "nil"
         /\ ext[c].http.kind \in {"value", "trailing"}
         /\ BodyShaped(ext[c].http.sent))
        => /\ ret[c].kind = "user"
           /\ ret[c].err = "nil"
           /\ UniqueKeys(ext[c].http.sent)
                => ret[c].user = Projection(arg[c].session.s, ext[c].http.sent)
\* A profile without an image object: the nickname and the guid are
\* projected, the avatar URL is empty, the tokens are the session's.
C1_Witness ==
    \E c \in Procs :
        /\ FetchDone(c)
        /\ ext[c].http.sent = ProfileBody(<<Member("nickname", JStr(<<"jdoe">>)),
                                            Member("guid", JStr(<<"123">>))>>)
        /\ ext[c].http.status = 200
        /\ arg[c].session.s.AccessToken = <<"tok">>
        /\ ret[c].err = "nil"
        /\ ret[c].user.Name = <<"jdoe">>
        /\ ret[c].user.UserID = <<"123">>
        /\ ret[c].user.AvatarURL = <<>>

\* C2: whenever the profile request ends in a connection failure or the
\* endpoint answers with a status that is not 2xx, FetchUser returns a
\* non-nil error and a user with the session's tokens and no profile field.
C2_ErrorOnFailedRequest ==
    \A c \in Procs :
        (/\ FetchDone(c)
         /\ \/ ext[c].http.err # "nil"
            \/ ext[c].http.status \notin 200..299)
        => /\ ret[c].err # "nil"
           /\ TokensOf(ret[c].user, arg[c].session.s)
           /\ NoProfile(ret[c].user)

\* C3: whenever the body of the profile response fails to decode (it is not
\* JSON, or a field of it is not of the expected type), FetchUser returns a
\* non-nil error and the user as it was set up from the session: provider
\* and tokens set, every profile field still empty.
C3_DecodeFailureKeepsUser ==
    \A c \in Procs :
        (/\ FetchDone(c)
         /\ ext[c].http.err = "nil"
         /\ \/ ext[c].http.kind = "malformed"
            \/ ~BodyShaped(ext[c].http.sent))
        => /\ ret[c].err # "nil"
           /\ ret[c].user.Provider = <<"yahoo">>
           /\ TokensOf(ret[c].user, arg[c].session.s)
           /\ NoProfile(ret[c].user)
           /\ ret[c].user.Email = <<>>
\* A body whose nickname is fine and whose guid is an object: the decoder
\* had stored the nickname when it met the type error.
C3_Witness ==
    \E c \in Procs :
        /\ FetchDone(c)
        /\ ext[c].http.sent = ProfileBody(<<Member("nickname", JStr(<<"jdoe">>)),
                                            Member("guid", JObj(<<>>))>>)
        /\ arg[c].session.s.AccessToken = <<"tok">>
        /\ ret[c].err = "type"
        /\ ret[c].user.Name = <<>>
        /\ ret[c].user.AccessToken = <<"tok">>

\* C4: for every Session, UnmarshalSession of the session's serialized text
\* returns a nil error and a Session equal to it field for field.
C4_SessionRoundTrip ==
    \A c \in Procs :
        (/\ pc[c] = "done"
         /\ op[c] = "UnmarshalSession"
         /\ arg[c].session.dyn = "yahoo")
        => /\ arg[c].data = Marshal(arg[c].session.s)
           /\ ret[c].err = "nil"
           /\ ret[c].session = arg[c].session.s
\* A session with an authorization URL, an access token with a character JSON
\* escapes, no refresh token and an expiry.
C4_Witness ==
    \E c \in Procs :
        /\ pc[c] = "done"
        /\ op[c] = "UnmarshalSession"
        /\ arg[c].session.dyn = "yahoo"
        /\ arg[c].session.s.AuthURL # <<>>
        /\ arg[c].session.s.AccessToken = <<"tok", "<">>
        /\ arg[c].session.s.RefreshToken = <<>>
        /\ arg[c].session.s.ExpiresAt = "T1"
        /\ ret[c].session = arg[c].session.s

\* The text is one JSON value and nothing else.
ValidJSON(text) == ParseValue(text).ok /\ ParseValue(text).rest = <<>>
\* The value is null or an object whose session fields, where present, are
\* strings or null (the expiry a timestamp or null).
SessionShaped(v) ==
    \/ v.t = "null"
    \/ /\ v.t = "obj"
       /\ \A i \in 1..Len(v.m) :
             /\ (\E n \in {"AuthURL", "AccessToken", "RefreshToken"} : KeyMatches(v.m[i].k, n))
                   => StrOrNull(v.m[i].v)
             /\ KeyMatches(v.m[i].k, "ExpiresAt")
                   => \/ v.m[i].v.t = "null"
                      \/ v.m[i].v.t = "str" /\ ParseTime(v.m[i].v.s).ok

\* C5: whenever the input is not valid JSON or does not match the Session
\* shape, UnmarshalSession returns a non-nil error and a Session no field of
\* which carries a value of the rejected input.
C5_RejectedInputLeavesNothing ==
    \A c \in Procs :
        (/\ pc[c] = "done"
         /\ op[c] = "UnmarshalSession"
         /\ \/ ~ValidJSON(arg[c].data)
            \/ ~SessionShaped(ParseValue(arg[c].data).v))
        => /\ ret[c].err # "nil"
           /\ ret[c].session = ZeroSession

(***************************************************************************)
(* Reading an authorization URL the way the server does.                   *)
(***************************************************************************)
UnescapeAtom(a) ==
    CASE a = "+"   -> " "
      [] a = "%26" -> "&"
      [] a = "%3D" -> "="
      [] a = "%25" -> "%"
      [] a = "%2B" -> "+"
      [] a = "%3F" -> "?"
      [] OTHER     -> a
RECURSIVE SplitOn(_, _, _)
SplitOn(s, sep, cur) ==
    IF s = <<>> THEN <<cur>>
    ELSE IF Head(s) = sep THEN <<cur>> \o SplitOn(Tail(s), sep, <<>>)
    ELSE SplitOn(Tail(s), sep, Append(cur, Head(s)))
\* The query of the URL: the text after the "?" that follows the endpoint,
\* cut at every "&", each piece cut at its first "=".
QueryPairs(u) ==
    LET pieces == SplitOn(SubSeq(u, 3, Len(u)), "&", <<>>)
    IN  [i \in 1..Len(pieces) |->
            [k |-> IF pieces[i] = <<>> THEN "" ELSE pieces[i][1],
             wellFormed |-> Len(pieces[i]) >= 2 /\ pieces[i][2] = "=",
             v |-> [j \in 1..(Len(pieces[i]) - 2) |-> UnescapeAtom(pieces[i][j + 2])]]]
\* The URL carries the value as its parameter key: once if the value is not
\* empty, at most once if it is.
Carries(u, key, value) ==
    LET ps == QueryPairs(u)
        at == {i \in 1..Len(ps) : ps[i].k = key}
    IN  /\ \A i \in at : ps[i].wellFormed /\ ps[i].v = value
        /\ Cardinality(at) <= 1
        /\ value # <<>> => at # {}

\* C6: New followed by BeginAuth(state) returns a nil error and a Session
\* whose only populated field is AuthURL, a URL at the fixed authorization
\* endpoint that carries the given client id, callback URL and state as its
\* client_id, redirect_uri and state parameters.
C6_BeginAuthURL ==
    \A c \in Procs :
        (pc[c] = "done" /\ op[c] = "BeginAuth")
        => LET s == ret[c].session
           IN  /\ ret[c].err = "nil"
               /\ ret[c].kind = "session"
               /\ s.AccessToken = <<>>
               /\ s.RefreshToken = <<>>
               /\ s.ExpiresAt = ZeroTime
               /\ Len(s.AuthURL) >= 2
               /\ s.AuthURL[1] = "https://api.login.yahoo.com/oauth2/request_auth"
               /\ s.AuthURL[2] = "?"
               /\ Carries(s.AuthURL, "client_id", made.clientKey)
               /\ Carries(s.AuthURL, "redirect_uri", made.callbackURL)
               /\ Carries(s.AuthURL, "state", arg[c].state)
\* A client key, a callback URL and a state that all need escaping.
C6_Witness ==
    \E c \in Procs :
        /\ pc[c] = "done"
        /\ op[c] = "BeginAuth"
        /\ made.clientKey = <<"k", "&", "=">>
        /\ made.callbackURL = <<"http://host/cb", "?", "a", "=", "b c", "%">>
        /\ Len(made.scopes) = 2
        /\ arg[c].state = <<"&", "=">>
        /\ Carries(ret[c].session.AuthURL, "state", <<"&", "=">>)

\* C7: RefreshToken hands the token source a token made of the refresh token
\* alone (no access token, no expiry) and returns its outcome: the new token
\* and a nil error, or the error unchanged and no token.
C7_RefreshDelegates ==
    \A c \in Procs :
        /\ (op[c] = "RefreshToken" /\ pc[c] \in {"refresh_ts", "done"})
            => /\ ~tsArg[c].nil
               /\ tsArg[c].RefreshToken = arg[c].refreshToken
               /\ tsArg[c].AccessToken = <<>>
               /\ tsArg[c].Expiry = ZeroTime
        /\ (op[c] = "RefreshToken" /\ pc[c] = "done")
            => /\ ret[c].kind = "token"
               /\ ret[c].err = ext[c].ts.err
               /\ IF ext[c].ts.err = "nil"
                  THEN ret[c].token = ext[c].ts.token /\ ~ret[c].token.nil
                  ELSE ret[c].token.nil
\* The token source refused a refresh token.
C7_Witness ==
    \E c \in Procs :
        /\ pc[c] = "done"
        /\ op[c] = "RefreshToken"
        /\ arg[c].refreshToken = <<"ref", "&">>
        /\ ext[c].ts.err = "invalid_grant"
        /\ ret[c].err = "invalid_grant"
        /\ ret[c].token.nil

\* C8: every call of BeginAuth, FetchUser, UnmarshalSession and RefreshToken,
\* whatever its argument, ends by returning; none ends in a panic.
C8_NoPanic ==
    \A c \in Procs : pc[c] # "panicked" /\ ret[c].kind # "panic"

(***************************************************************************)
(* What a call returns when it runs alone on the Provider New made.        *)
(***************************************************************************)
FetchUserAlone(sess, http) ==
    IF http.err # "nil"
    THEN [NoRet EXCEPT !.kind = "user", !.user = InitUser(sess.s), !.err = http.err]
    ELSE [NoRet EXCEPT !.kind = "user",
                       !.user = userFromReader(http.body, InitUser(sess.s)).user,
                       !.err = userFromReader(http.body, InitUser(sess.s)).err]
Alone(o, a, e) ==
    LET p == New(made.clientKey, made.secret, made.callbackURL, made.scopes)
    IN  CASE o = "BeginAuth" ->
                [NoRet EXCEPT !.kind = "session", !.session = BeginAuth(p, a.state).session]
          [] o = "UnmarshalSession" ->
                [NoRet EXCEPT !.kind = "session", !.session = UnmarshalSession(a.data).session,
                              !.err = UnmarshalSession(a.data).err]
          [] o = "RefreshToken" ->
                [NoRet EXCEPT !.kind = "token", !.token = RefreshResult(e.ts).token,
                              !.err = RefreshResult(e.ts).err]
          [] o = "FetchUser" -> FetchUserAlone(a.session, e.http)
          [] OTHER -> [NoRet EXCEPT !.kind = "void"]

\* C9: in every interleaving of calls by several callers, each with its own
\* session, the Provider is never written after New returned, and each call
\* returns what it would return alone with the same arguments and the same
\* answers of the outside world.
C9_ReadOnlyProvider ==
    /\ [][provider' = provider]_vars
    /\ [](\A c \in Procs : pc[c] = "done" => ret[c] = Alone(op[c], arg[c], ext[c]))
\* One caller has its user while another is inside RefreshToken, waiting
\* for the token source.
C9_Witness ==
    \E c, d \in Procs :
        /\ c # d
        /\ FetchDone(c) /\ ret[c].err = "nil" /\ ret[c].user.Name = <<"jdoe">>
        /\ op[d] = "RefreshToken" /\ pc[d] = "refresh_ts"

\* C10: whenever FetchUser returns and the HTTP client had handed back a
\* response, the body of that response is closed; and a body that was to be
\* decoded is closed only once userFromReader has returned.
C10_BodyClosed ==
    \A c \in Procs :
        /\ (FetchDone(c) /\ ext[c].http.hasResp)
            => (resp[c].present /\ resp[c].state = "closed")
        /\ (resp[c].state = "closed" /\ ext[c].http.err = "nil") => decoded[c]
        /\ (resp[c].present /\ pc[c] \in {"fetch_decode", "fetch_return"})
            => resp[c].state = "open"
\* Decoding failed and the body is closed all the same.
C10_Witness ==
    \E c \in Procs :
        /\ FetchDone(c)
        /\ ext[c].http.kind = "malformed"
        /\ ret[c].err = "syntax"
        /\ decoded[c]
        /\ resp[c].state = "closed"

====
